---- MODULE Spec2Model ----
(***************************************************************************)
(* The route optimisation flow of optifleet: POST /optimize in app.py      *)
(* (parse_request with its geocoder calls, the travel matrix, the          *)
(* per-vehicle partition, one solve_vrptw call per vehicle, the leg        *)
(* polylines, the map, the last_plans row and the response) and the        *)
(* constraint model that core/solver/vrptw.py hands to OR-Tools.           *)
(*                                                                         *)
(* Units.  Travel times are floats in the code; here they are integers in  *)
(* half minutes (suffix X2), so that int(round(.)) of the time callback is *)
(* a real rounding.  Distances are integers in metres (km * 1000).         *)
(* A missing JSON field / None is "" for strings and <<>> for HH:MM.       *)
(* A lat / lon field is a record: absent, a number, or a text that float() *)
(* rejects.                                                                *)
(***************************************************************************)
EXTENDS Integers, Sequences, FiniteSets, TLC

\* ------------------------------------------------------------------------
\* Bounds of the explored requests
\* ------------------------------------------------------------------------
MaxStops == 2
MaxVehicles == 2
\* Longer lists, for the requests that only vary the size of the fleet.
MaxRoundRobinStops == 4
MaxRoundRobinVehicles == 3
\* Stops of the requests that vary how the points are located.
MaxGeoStops == 1
\* Stops of the requests answered while the map collaborators misbehave.
MaxEnrichStops == 2
MaxMatrixPoints == 2
MaxTrials == 2
MaxTicks == 2
MaxFleetThreads == 2
MaxFleetRequests == 3
MaxConcurrent == 2
MaxClock == 2

\* ------------------------------------------------------------------------
\* Program constants
\* ------------------------------------------------------------------------
\* routing.AddDimension(transit_cb, 60*24, 60*24, False, "Time")
Horizon == 1440
\* parse_request: capacity default int(v.get("capacity", 999999))
DefaultCapacity == 999999
\* RoutingProvider.travel_matrix fallback cell: {"km": 5.0, "minutes": 10.0}
FallbackMinutesX2 == 20
FallbackMetres == 5000
TrialDays == 90

\* ------------------------------------------------------------------------
\* Generic helpers
\* ------------------------------------------------------------------------
Range(s) == {s[i] : i \in DOMAIN s}

Max(S) == CHOOSE x \in S : \A y \in S : y <= x

Min(S) == CHOOSE x \in S : \A y \in S : x <= y

RECURSIVE SumSeq(_)
SumSeq(s) == IF s = <<>> THEN 0 ELSE Head(s) + SumSeq(Tail(s))

SeqsUpTo(S, n) == UNION {[1..k -> S] : k \in 0..n}

\* list.index(x): position of the first element equal to x (dataclass __eq__
\* compares all declared fields), 1-based here.
ListIndex(lst, x) == Min({i \in DOMAIN lst : lst[i] = x})

\* Python's round(x) for x = x2/2 (round half to even).
RoundX2(x2) ==
    LET q == x2 \div 2
    IN  IF x2 % 2 = 0 THEN q ELSE IF q % 2 = 0 THEN q ELSE q + 1

\* core/models.py hhmm_to_minutes; an HH:MM string is the pair <<h, m>>.
hhmm_to_minutes(hhmm) == hhmm[1] * 60 + hhmm[2]

\* ------------------------------------------------------------------------
\* The requests explored
\* ------------------------------------------------------------------------
NoTime == <<>>

NoCoord == [kind |-> "none", val |-> 0]

Num(x) == [kind |-> "num", val |-> x]

Text == [kind |-> "text", val |-> 0]

RawDepot(lat, lon, addr, sw, ew) ==
    [lat |-> lat, lon |-> lon, address |-> addr,
     start_window |-> sw, end_window |-> ew]

RawVehicle(id, cap, st, en) ==
    [id |-> id, capacity |-> cap, start_time |-> st, end_time |-> en]

RawStopAt(id, veh, lat, lon, addr, dem, svc, tws, twe) ==
    [id |-> id, vehicle |-> veh, lat |-> lat, lon |-> lon, address |-> addr,
     demand |-> dem, service_min |-> svc, tw_start |-> tws, tw_end |-> twe]

\* A stop given by numeric coordinates (loc, loc), without address.
RawStop(id, veh, loc, dem, svc, tws, twe) ==
    RawStopAt(id, veh, Num(loc), Num(loc), "", dem, svc, tws, twe)

\* Requests that vary who gets which stop: ids (missing and repeated ones
\* included), explicit vehicle tags (a vehicle that does not exist
\* included), repeated vehicle ids.  Loads and windows are kept slack.
AssignVehicles ==
    SeqsUpTo({RawVehicle(id, DefaultCapacity, <<0, 0>>, <<23, 59>>) :
                 id \in {"V1", "V2"}}, MaxVehicles)

AssignStops ==
    SeqsUpTo({RawStop(id, veh, loc, 1, 0, <<0, 0>>, <<0, 21>>) :
                 id \in {"A", "B", ""}, veh \in {"", "V1", "V9"},
                 loc \in {1}}, MaxStops)

AssignRequests ==
    [depot : {RawDepot(Num(9), Num(9), "", <<0, 0>>, <<0, 0>>)},
     vehicles : AssignVehicles,
     stops : AssignStops,
     objective : {"min_cost"}]

\* Requests that vary what the solver is given: demands, service times,
\* stop windows (missing and half-given included), capacity, vehicle hours,
\* depot window.
\* Stops are untagged and distinct; one vehicle.
SolveVehicles ==
    {<<RawVehicle("V1", cap, hrs[1], hrs[2])>> :
        cap \in {1, 3}, hrs \in {<<<<0, 0>>, <<23, 59>>>>, <<<<0, 2>>, <<0, 23>>>>}}

SolveStopAt(p) ==
    {RawStop(<<"A", "B", "C", "D">>[p], "", p, load[1], load[2], tw[1], tw[2]) :
        load \in {<<1, 0>>, <<1, 1>>, <<2, 1>>},
        tw \in {<<NoTime, NoTime>>, <<<<0, 3>>, NoTime>>, <<<<0, 3>>, <<0, 21>>>>}}

SolveStops ==
    UNION {{s \in [1..k -> UNION {SolveStopAt(p) : p \in 1..k}] :
               \A p \in 1..k : s[p] \in SolveStopAt(p)} : k \in 1..MaxStops}

SolveRequests ==
    [depot : {RawDepot(Num(9), Num(9), "", <<0, 0>>, <<0, 4>>),
              RawDepot(Num(9), Num(9), "", <<0, 1>>, <<0, 3>>)},
     vehicles : SolveVehicles,
     stops : SolveStops,
     objective : {"min_cost"}]

\* Requests that vary how many stops and vehicles there are: untagged,
\* pairwise different stops with a window of their own; vehicle ids may
\* repeat; a vehicle called V2 is a small one.
RoundRobinVehicles ==
    SeqsUpTo({RawVehicle("V1", DefaultCapacity, <<0, 0>>, <<23, 59>>),
              RawVehicle("V2", 1, <<0, 0>>, <<23, 59>>)}, MaxRoundRobinVehicles)

RoundRobinStops ==
    {[p \in 1..k |-> RawStop(<<"A", "B", "C", "D", "E">>[p], "", p, 1, 0,
                             <<0, 0>>, <<23, 59>>)] : k \in 0..MaxRoundRobinStops}

RoundRobinRequests ==
    [depot : {RawDepot(Num(9), Num(9), "", <<0, 0>>, <<0, 1>>)},
     vehicles : RoundRobinVehicles,
     stops : RoundRobinStops,
     objective : {"min_cost"}]

\* Requests that vary how the points are located: coordinates absent, zero,
\* numeric or not a number, with or without an address.  One vehicle,
\* pairwise different untagged stops with a window of their own that closes
\* early, slack loads.
CoordPairs ==
    {<<Num(1), Num(2)>>, <<Num(0), Num(2)>>, <<NoCoord, NoCoord>>,
     <<Num(1), NoCoord>>, <<Text, Num(2)>>}

Addresses == {"", "Rua X"}

GeoDepots ==
    {RawDepot(c[1], c[2], a, <<0, 0>>, <<0, 1>>) : c \in CoordPairs, a \in Addresses}

GeoStopAt(p) ==
    {RawStopAt(<<"A", "B", "C">>[p], "", c[1], c[2], a, 1, 0, <<0, 0>>, <<0, 5>>) :
        c \in CoordPairs, a \in Addresses}

GeoStops ==
    UNION {{s \in [1..k -> UNION {GeoStopAt(p) : p \in 1..k}] :
               \A p \in 1..k : s[p] \in GeoStopAt(p)} : k \in 0..MaxGeoStops}

GeoRequests ==
    [depot : GeoDepots,
     vehicles : {<<RawVehicle("V1", DefaultCapacity, <<0, 0>>, <<23, 59>>)>>},
     stops : GeoStops,
     objective : {"min_cost"}]

\* Requests that vary the clock values and the objective: HH:MM pairs in
\* order, out of order and past 24:00.  One vehicle, one stop.
ClockRequests ==
    [depot : {RawDepot(Num(9), Num(9), "", w[1], w[2]) :
                 w \in {<<<<0, 0>>, <<0, 4>>>>, <<<<0, 4>>, <<0, 0>>>>}},
     vehicles : {<<RawVehicle("V1", DefaultCapacity, h[1], h[2])>> :
                    h \in {<<<<0, 0>>, <<23, 59>>>>, <<<<0, 0>>, <<25, 0>>>>,
                           <<<<9, 0>>, <<8, 0>>>>}},
     stops : {<<RawStop("A", "", 1, 1, 0, tw[1], tw[2])>> :
                 tw \in {<<NoTime, NoTime>>, <<<<0, 3>>, <<0, 21>>>>,
                         <<<<0, 21>>, <<0, 3>>>>, <<<<0, 0>>, <<24, 30>>>>}},
     objective : {"min_cost", "min_time", "min_distance"}]

Requests ==
    AssignRequests \cup SolveRequests \cup RoundRobinRequests \cup GeoRequests
        \cup ClockRequests

\* Requests answered while rp.leg_polyline and build_map are unreliable: one
\* or two vehicles, pairwise different untagged stops at different places.
EnrichRequests ==
    [depot : {RawDepot(Num(9), Num(9), "", <<0, 0>>, <<0, 1>>)},
     vehicles : {[i \in 1..n |-> RawVehicle(<<"V1", "V2">>[i], DefaultCapacity,
                                            <<0, 0>>, <<23, 59>>)] : n \in 1..2},
     stops : {[p \in 1..k |-> RawStop(<<"A", "B", "C">>[p], "", p, 1, 0,
                                      <<0, 0>>, <<23, 59>>)] : k \in 1..MaxEnrichStops},
     objective : {"min_cost"}]

\* The plan the user stored with an earlier request, and its map file.
PreviousRequest ==
    [depot |-> RawDepot(Num(9), Num(9), "", <<0, 0>>, <<0, 1>>),
     vehicles |-> <<>>, stops |-> <<>>, objective |-> "min_cost"]

MapRel(ts) == "/static/maps/route_" \o ToString(ts) \o ".html"

PreviousPlan ==
    [req_json |-> PreviousRequest, routes_json |-> <<>>,
     map_url |-> MapRel(0), path_json |-> <<>>]

\* ------------------------------------------------------------------------
\* State
\* ------------------------------------------------------------------------
VARIABLES
    raw,               \* request.get_json(): the payload
    pc,                \* position of the handler
    req,               \* OptimizeRequest built by parse_request
    geocode_calls,     \* the calls of rp.geocode so far and what they returned
    time_m_all,        \* time_m_all[i+1][j+1], half minutes
    dist_m_all,        \* dist_m_all[i+1][j+1], metres
    stops_by_vehicle,  \* dict vehicle code -> list of stops (positions in req.stops)
    has_assignment,
    vi,                \* next key of veh_by_id.items() to handle
    results,           \* list of route dicts
    solved,            \* per solved route: what solve_vrptw was given and its solution
    total_time,        \* half minutes
    total_dist,        \* metres
    response,          \* the HTTP answer
    collaborators,     \* "steady": leg_polyline answers, build_map succeeds;
                       \* "flaky": every call of either may fail
    leg_calls,         \* per leg: what rp.leg_polyline did and the leg_coords kept
    vehicle_paths,     \* dict vehicle id -> full_coords
    map_ok,
    map_files,         \* the files under static/maps
    last_plans         \* the rows of table last_plans of the current user

enrichVars == <<collaborators, leg_calls, vehicle_paths, map_ok, map_files, last_plans>>

optimizeVars == <<raw, pc, req, geocode_calls, time_m_all, dist_m_all, stops_by_vehicle,
                  has_assignment, vi, results, solved, total_time, total_dist, response,
                  enrichVars>>

\* One call of RoutingProvider.travel_matrix, followed by the loop of optimize
\* that reads m[(i, j)] for every pair.
VARIABLES
    mx_provider,       \* "core": core/providers/maps.py, "legacy": src/maps.py
    mx_key,            \* a Google Maps key is configured
    mx_n,              \* len(points)
    mx_answer,         \* what the Distance Matrix service does when it is called
    mx_result,         \* the dictionary returned, keyed by <<i, j>>
    mx_pc              \* "call", "returned", "read", "KeyError"

matrixVars == <<mx_provider, mx_key, mx_n, mx_answer, mx_result, mx_pc>>

\* The trial store (data/trials.json) and GET /trial/start.
VARIABLES
    trial_rows,        \* the rows of data/trials.json
    trial_regs,        \* per row, the email, ip and fp it was registered with
    trial_now,         \* the clock, in days
    trial_last         \* the last call of trial_start and what it answered

trialVars == <<trial_rows, trial_regs, trial_now, trial_last>>

\* POST /api/fleet/vehicles of one client, handled by concurrent threads.
VARIABLES
    fl_plan,           \* the plan name found for the client
    fl_vehicles,       \* the ids in table vehicles for the client
    fl_thread,         \* per thread: the request it handles and its position
    fl_started         \* requests started so far

fleetVars == <<fl_plan, fl_vehicles, fl_thread, fl_started>>

\* The tail of optimize run by concurrent requests: timestamp, map file,
\* last_plans row, answer.
VARIABLES
    cc_clock,          \* int(time.time())
    cc_req,            \* per request: user, position, ts, map_ok, map_url answered
    cc_disk,           \* static/maps: per ts, the request whose routes the file shows
    cc_plans,          \* the rows of table last_plans
    cc_done            \* the requests answered, in the order of their answers

concVars == <<cc_clock, cc_req, cc_disk, cc_plans, cc_done>>

sideVars == <<matrixVars, trialVars, fleetVars, concVars>>

besidesMatrix == <<optimizeVars, trialVars, fleetVars, concVars>>

besidesTrial == <<optimizeVars, matrixVars, fleetVars, concVars>>

besidesFleet == <<optimizeVars, matrixVars, trialVars, concVars>>

besidesConcurrent == <<optimizeVars, matrixVars, trialVars, fleetVars>>

vars == <<optimizeVars, sideVars>>

NoRequest == [depot |-> <<0, 0>>, depot_loc |-> <<0, 0>>,
              vehicles |-> <<>>, stops |-> <<>>, objective |-> ""]

NoMessage == [error |-> "", id |-> "", address |-> ""]

NoResponse == [status |-> "", code |-> 0, message |-> NoMessage, routes |-> <<>>,
               total_time_min |-> 0, total_dist_km |-> 0, map_url |-> ""]

NoAnswer == [kind |-> "raise", rows |-> <<>>]

MatrixIdle ==
    /\ mx_provider = "core"
    /\ mx_key = FALSE
    /\ mx_n = 0
    /\ mx_answer = NoAnswer
    /\ mx_result = <<>>
    /\ mx_pc = "idle"

NoStart == [called |-> FALSE, email |-> "", ip |-> "", fp |-> "",
            blocked |-> FALSE, at |-> 0, seen |-> 0]

TrialIdle ==
    /\ trial_rows = <<>>
    /\ trial_regs = <<>>
    /\ trial_now = 0
    /\ trial_last = NoStart

FleetIdle ==
    /\ fl_plan = ""
    /\ fl_vehicles = {}
    /\ fl_thread = <<>>
    /\ fl_started = 0

ConcurrentIdle ==
    /\ cc_clock = 0
    /\ cc_req = <<>>
    /\ cc_disk = {}
    /\ cc_plans = <<>>
    /\ cc_done = <<>>

Init ==
    /\ MatrixIdle /\ TrialIdle /\ FleetIdle /\ ConcurrentIdle
    /\ \/ raw \in Requests /\ collaborators = "steady"
       \/ raw \in EnrichRequests /\ collaborators = "flaky"
    /\ leg_calls = <<>>
    /\ vehicle_paths = <<>>
    /\ map_ok = TRUE
    /\ map_files = {MapRel(0)}
    /\ last_plans = <<PreviousPlan>>
    /\ pc = "start"
    /\ req = NoRequest
    /\ geocode_calls = <<>>
    /\ time_m_all = <<>>
    /\ dist_m_all = <<>>
    /\ stops_by_vehicle = <<>>
    /\ has_assignment = FALSE
    /\ vi = 1
    /\ results = <<>>
    /\ solved = <<>>
    /\ total_time = 0
    /\ total_dist = 0
    /\ response = NoResponse

\* ------------------------------------------------------------------------
\* parse_request
\* ------------------------------------------------------------------------
AutoId(idx) == "S" \o ToString(idx)

ParseVehicle(v) ==
    [id |-> v.id, capacity |-> v.capacity,
     start_min |-> hhmm_to_minutes(v.start_time),
     end_min |-> hhmm_to_minutes(v.end_time)]

\* "not d_lat": None, 0 and "" are falsy.
Falsy(c) == c.kind = "none" \/ (c.kind = "num" /\ c.val = 0)

\* The depot goes to the geocoder when "not d_lat or not d_lon".
DepotNeedsGeocode(d) == Falsy(d.lat) \/ Falsy(d.lon)

\* A stop keeps its lat / lon when both are given and float() takes both;
\* otherwise lat = lon = None and it goes to the geocoder.
StopNeedsGeocode(s) == ~(s.lat.kind = "num" /\ s.lon.kind = "num")

\* The points of the payload, 0 the depot, i >= 1 stop i.
PointAt(payload, i) == IF i = 0 THEN payload.depot ELSE payload.stops[i]

NeedsGeocode(payload, i) ==
    IF i = 0 THEN DepotNeedsGeocode(payload.depot)
    ELSE StopNeedsGeocode(payload.stops[i])

\* rp.geocode(address): (lat, lng) of the first result, or None (no key, a
\* failed call, status other than OK, no result).
Geocoded(address) == <<50, 60>>

Raised(error, id, address) ==
    [ok |-> FALSE, loc |-> <<0, 0>>,
     message |-> [error |-> error, id |-> id, address |-> address]]

Located(loc) == [ok |-> TRUE, loc |-> loc, message |-> NoMessage]

\* The depot block; hit tells whether the geocoder, if asked, answers.
ParseDepot(d, hit) ==
    IF DepotNeedsGeocode(d)
    THEN IF d.address = "" THEN Raised("depot without coordinates or address", "", "")
         ELSE IF ~hit THEN Raised("depot not geocoded", "", d.address)
         ELSE Located(Geocoded(d.address))
    ELSE IF d.lat.kind = "text" \/ d.lon.kind = "text"
         THEN Raised("could not convert string to float", "", "")
         ELSE Located(<<d.lat.val, d.lon.val>>)

\* Variant: a geocoding miss is reported like a stop without address.
LocateStop_AddressDropped(s, idx, hit) ==
    IF StopNeedsGeocode(s)
    THEN IF s.address = "" \/ ~hit
         THEN Raised("stop without lat/lon or address",
                     IF s.id # "" THEN s.id ELSE AutoId(idx), "")
         ELSE Located(Geocoded(s.address))
    ELSE Located(<<s.lat.val, s.lon.val>>)

\* The coordinates block of one stop.
LocateStop(s, idx, hit) ==
    IF StopNeedsGeocode(s)
    THEN IF s.address = ""
         THEN Raised("stop without lat/lon or address",
                     IF s.id # "" THEN s.id ELSE AutoId(idx), "")
         ELSE IF ~hit
         THEN Raised("stop not geocoded",
                     IF s.id # "" THEN s.id ELSE AutoId(idx), s.address)
         ELSE Located(Geocoded(s.address))
    ELSE Located(<<s.lat.val, s.lon.val>>)

\* Stop(id, loc, demand, service_min, window); window None is <<>>.
ParseStop(s, idx, loc) ==
    [id |-> IF s.id # "" THEN s.id ELSE AutoId(idx),
     loc |-> loc,
     demand |-> s.demand,
     service_min |-> s.service_min,
     window |-> IF s.tw_start # NoTime /\ s.tw_end # NoTime
                THEN <<hhmm_to_minutes(s.tw_start), hhmm_to_minutes(s.tw_end)>>
                ELSE <<>>]

\* The points whose address is handed to rp.geocode if the parse gets to them.
Callers(payload) ==
    {i \in 0..Len(payload.stops) :
        NeedsGeocode(payload, i) /\ PointAt(payload, i).address # ""}

LocatePoint(payload, i, hits) ==
    LET hit == IF i \in DOMAIN hits THEN hits[i] ELSE FALSE
    IN  IF i = 0 THEN ParseDepot(payload.depot, hit)
        ELSE LocateStop(payload.stops[i], i, hit)

\* The first point at which the parse raises, -1 if it runs to the end.
FirstRaise(payload, hits) ==
    LET bad == {i \in 0..Len(payload.stops) : ~LocatePoint(payload, i, hits).ok}
    IN  IF bad = {} THEN -1 ELSE Min(bad)

\* parse_request for the answers hits[i] of the geocoder: the request built,
\* or the exception raised, and the geocoder calls made on the way.
parse_request(payload, hits) ==
    LET stop_at == FirstRaise(payload, hits)
        last == IF stop_at = -1 THEN Len(payload.stops) ELSE stop_at
        asked == SelectSeq([k \in 1..(last + 1) |-> k - 1],
                           LAMBDA i : i \in Callers(payload))
    IN  [ok |-> stop_at = -1,
         message |-> IF stop_at = -1 THEN NoMessage
                     ELSE LocatePoint(payload, stop_at, hits).message,
         calls |-> [k \in DOMAIN asked |->
                       [point |-> asked[k],
                        address |-> PointAt(payload, asked[k]).address,
                        hit |-> hits[asked[k]]]],
         req |-> IF stop_at # -1 THEN NoRequest
                 ELSE [depot |-> <<hhmm_to_minutes(payload.depot.start_window),
                                   hhmm_to_minutes(payload.depot.end_window)>>,
                       depot_loc |-> LocatePoint(payload, 0, hits).loc,
                       objective |-> payload.objective,
                       vehicles |-> [i \in DOMAIN payload.vehicles |->
                                        ParseVehicle(payload.vehicles[i])],
                       stops |-> [i \in DOMAIN payload.stops |->
                                     ParseStop(payload.stops[i], i,
                                               LocatePoint(payload, i, hits).loc)]]]

BadRequest(message) ==
    [status |-> "bad_request", code |-> 400, message |-> message, routes |-> <<>>,
     total_time_min |-> 0, total_dist_km |-> 0, map_url |-> ""]

\* optimize: req = parse_request(raw), any exception answered bad_request.
ParseRequest ==
    /\ pc = "start"
    /\ \E hits \in [Callers(raw) -> BOOLEAN] :
          LET parsed == parse_request(raw, hits)
          IN  /\ geocode_calls' = parsed.calls
              /\ req' = parsed.req
              /\ IF parsed.ok
                 THEN pc' = "parsed" /\ response' = response
                 ELSE pc' = "done" /\ response' = BadRequest(parsed.message)
    /\ UNCHANGED <<raw, time_m_all, dist_m_all, stops_by_vehicle, has_assignment,
                   vi, results, solved, total_time, total_dist, enrichVars, sideVars>>

\* ------------------------------------------------------------------------
\* rp.travel_matrix and the copy into time_m_all / dist_m_all
\* ------------------------------------------------------------------------
MatrixKinds == {"fallback", "live"}

\* Cell (i, j) of the provider's answer, i, j 0-based over [depot] + stops.
\* "fallback": no key or a failed call.  "live": what the distance matrix
\* service answered (seconds / 60, metres / 1000), asymmetric.
CellMinutesX2(kind, i, j) ==
    IF i = j THEN 0
    ELSE IF kind = "fallback" THEN FallbackMinutesX2
    ELSE IF i < j THEN 3 ELSE 1

CellMetres(kind, i, j) ==
    IF i = j THEN 0
    ELSE IF kind = "fallback" THEN FallbackMetres
    ELSE 700 + 100 * i + 10 * j

TravelMatrix ==
    /\ pc = "parsed"
    /\ \E kind \in MatrixKinds :
          LET n_all == 1 + Len(req.stops)
          IN  /\ time_m_all' = [a \in 1..n_all |-> [b \in 1..n_all |->
                                    CellMinutesX2(kind, a - 1, b - 1)]]
              /\ dist_m_all' = [a \in 1..n_all |-> [b \in 1..n_all |->
                                    CellMetres(kind, a - 1, b - 1)]]
    /\ pc' = "matrix"
    /\ UNCHANGED <<raw, req, geocode_calls, stops_by_vehicle, has_assignment,
                   vi, results, solved, total_time, total_dist, response, enrichVars,
                   sideVars>>

\* ------------------------------------------------------------------------
\* Grouping of the stops by vehicle (explicit tags, else round-robin)
\* ------------------------------------------------------------------------
Positions(lst) == [p \in DOMAIN lst |-> p]

\* id_to_vehicle = {rs.get("id"): rs.get("vehicle") for rs in raw_stops if rs.get("id")}
\* followed by .get(id): the tag of the last raw stop carrying that id.
id_to_vehicle(raw_stops, id) ==
    LET hits == {i \in DOMAIN raw_stops : raw_stops[i].id # "" /\ raw_stops[i].id = id}
    IN  IF hits = {} THEN "" ELSE raw_stops[Max(hits)].vehicle

\* The loop "for s in req.stops: vcode = ...; if vcode: ...setdefault(vcode, []).append(s)".
ExplicitGroups(raw_stops, stops) ==
    LET vcode(p) == id_to_vehicle(raw_stops, stops[p].id)
        keys == {vcode(p) : p \in DOMAIN stops} \ {""}
    IN  [k \in keys |-> SelectSeq(Positions(stops), LAMBDA p : vcode(p) = k)]

\* rr_partition(stops, vid_list), for a non-empty vid_list.
rr_partition(stops, vid_list) ==
    [vid \in Range(vid_list) |->
        SelectSeq(Positions(stops),
                  LAMBDA p : vid_list[((p - 1) % Len(vid_list)) + 1] = vid)]

VehIds(vehicles) == [i \in DOMAIN vehicles |-> vehicles[i].id]

\* veh_by_id = {v.id: v for v in req.vehicles}: keys in order of first
\* occurrence, the value of a repeated key is the last vehicle carrying it.
VehKeys(vehicles) ==
    LET firsts == SelectSeq(Positions(vehicles),
                     LAMBDA i : \A j \in 1..(i - 1) : vehicles[j].id # vehicles[i].id)
    IN  [k \in DOMAIN firsts |-> vehicles[firsts[k]].id]

veh_by_id(vehicles, id) ==
    vehicles[Max({i \in DOMAIN vehicles : vehicles[i].id = id})]

\* dict.get(key, [])
DictGet(d, key) == IF key \in DOMAIN d THEN d[key] ELSE <<>>

\* Variant: the failure is answered as a server error.
ErrorResponse_ServerError(status, code) ==
    [status |-> "error", code |-> 500, message |-> NoMessage, routes |-> <<>>,
     total_time_min |-> 0, total_dist_km |-> 0, map_url |-> ""]

\* Variant: the routes solved before the failure are sent along.
ErrorResponse_WithPartial(status, code) ==
    [status |-> status, code |-> code, message |-> NoMessage, routes |-> results,
     total_time_min |-> total_time, total_dist_km |-> total_dist, map_url |-> ""]

\* jsonify(r), code for a result r = {"status": status}.
ErrorResponse(status, code) ==
    [status |-> status, code |-> code, message |-> NoMessage, routes |-> <<>>,
     total_time_min |-> 0, total_dist_km |-> 0, map_url |-> ""]

\* app.py 1144-1200, the branch FORCE_PER_VEHICLE = True (the flag is a
\* literal, the other branch is never run).  With no vehicle and at least one
\* stop, none tagged,
\* rr_partition divides by len(vid_list) = 0: ZeroDivisionError, which no
\* handler catches.
Partition ==
    /\ pc = "matrix"
    /\ LET explicit == ExplicitGroups(raw.stops, req.stops)
           assigned == DOMAIN explicit # {}
       IN  /\ has_assignment' = assigned
           /\ IF assigned
              THEN /\ stops_by_vehicle' = explicit
                   /\ pc' = "loop"
                   /\ response' = response
              ELSE IF req.stops # <<>> /\ req.vehicles = <<>>
              THEN /\ stops_by_vehicle' = stops_by_vehicle
                   /\ pc' = "done"
                   /\ response' = ErrorResponse("exception", 500)
              ELSE /\ stops_by_vehicle' = rr_partition(req.stops, VehIds(req.vehicles))
                   /\ pc' = "loop"
                   /\ response' = response
    /\ UNCHANGED <<raw, req, geocode_calls, time_m_all, dist_m_all,
                   vi, results, solved, total_time, total_dist, enrichVars, sideVars>>

\* ------------------------------------------------------------------------
\* slice_and_solve: what one solve_vrptw call is given
\* ------------------------------------------------------------------------
\* idx_map = [0] + [1 + req.stops.index(s) for s in stops_subset]
idx_map(stops, subset) ==
    <<0>> \o [k \in DOMAIN subset |-> ListIndex(stops, stops[subset[k]])]

\* tmat[a][b] = time_m_all[ia][ib]; node a of the slice is entry a + 1.
SliceMatrix(m_all, map) ==
    [a \in DOMAIN map |-> [b \in DOMAIN map |-> m_all[map[a] + 1][map[b] + 1]]]

service_times(stops, subset) ==
    <<0>> \o [k \in DOMAIN subset |-> stops[subset[k]].service_min]

demands(stops, subset) ==
    <<0>> \o [k \in DOMAIN subset |-> stops[subset[k]].demand]

\* Variant: a stop without a window is left free over the whole day.
time_windows_Unbounded(depot, stops, subset) ==
    <<depot>> \o [k \in DOMAIN subset |->
                    IF stops[subset[k]].window # <<>>
                    THEN stops[subset[k]].window ELSE <<0, Horizon>>]

\* time_windows = [(depot.window.start_min, depot.window.end_min)], then per
\* stop its own window "if s.window else" the depot's.
time_windows(depot, stops, subset) ==
    <<depot>> \o [k \in DOMAIN subset |->
                    IF stops[subset[k]].window # <<>>
                    THEN stops[subset[k]].window ELSE depot]

\* ------------------------------------------------------------------------
\* solve_vrptw for the one-vehicle list optimize passes (FORCE_PER_VEHICLE):
\* the routing model handed to OR-Tools and the reading of its solution.
\* A path is the node sequence before the End index: <<0>> \o tour.
\* ------------------------------------------------------------------------
time_callback(tm, i, j) == RoundX2(tm[i + 1][j + 1])

demand_cb(dem, i) == dem[i + 1]

\* routing.SetArcCostEvaluatorOfAllVehicles(transit_cb): the cost of an arc is
\* what time_callback returns; dist_matrix_km and objective are not read.
arc_cost(tm, dm, objective, i, j) == time_callback(tm, i, j)

\* The arc costs of a path, the arc back into the End index included.
ArcCosts(tm, dm, objective, path) ==
    [k \in DOMAIN path |->
        arc_cost(tm, dm, objective, path[k], IF k < Len(path) THEN path[k + 1] ELSE 0)]

\* No disjunction is added: every node is visited, once.
Tours(n_nodes) ==
    {t \in [1..(n_nodes - 1) -> 1..(n_nodes - 1)] :
        \A a, b \in 1..(n_nodes - 1) : a # b => t[a] # t[b]}

\* Variant: the slack is left free, and the vehicle waits at a node until
\* the clock reaches the next multiple of ten minutes.
TimeCumuls_Waiting(tm, svc, path, t0) ==
    LET T[k \in 1..(Len(path) + 1)] ==
            IF k = 1 THEN t0
            ELSE LET arrive == T[k - 1]
                         + time_callback(tm, path[k - 1], IF k <= Len(path) THEN path[k] ELSE 0)
                         + svc[path[k - 1] + 1]
                 IN  arrive + ((10 - (arrive % 10)) % 10)
    IN  T

\* "Time" dimension: cumul(next) = cumul(i) + transit(i, next) + slack(i),
\* SlackVar(i) fixed to service_times[i].  Entry Len(path) + 1 is the End.
TimeCumuls(tm, svc, path, t0) ==
    LET T[k \in 1..(Len(path) + 1)] ==
            IF k = 1 THEN t0
            ELSE T[k - 1]
                 + time_callback(tm, path[k - 1], IF k <= Len(path) THEN path[k] ELSE 0)
                 + svc[path[k - 1] + 1]
    IN  T

\* "Capacity" dimension: start cumul fixed to zero, no slack.
LoadCumuls(dem, path) ==
    LET L[k \in 1..(Len(path) + 1)] ==
            IF k = 1 THEN 0 ELSE L[k - 1] + demand_cb(dem, path[k - 1])
    IN  L

\* AddDimension(transit_cb, 60*24, 60*24, False, "Time"): slack and cumul
\* variables range over 0..1440.
TimeDimensionOk(svc, path, T) ==
    /\ \A k \in DOMAIN T : T[k] \in 0..Horizon
    /\ \A k \in DOMAIN path : svc[path[k] + 1] \in 0..Horizon

\* Variant: only the opening of a window is enforced.
NodeWindowsOk_OpenOnly(tws, path, T) ==
    \A k \in DOMAIN path : tws[path[k] + 1][1] <= T[k]

\* Variant: only the depot's window is set.
NodeWindowsOk_DepotOnly(tws, path, T) ==
    tws[1][1] <= T[1] /\ T[1] <= tws[1][2]

\* CumulVar(NodeToIndex(node)).SetRange(tw): NodeToIndex(depot) is the Start
\* index of the vehicle, so the depot's window binds the departure only.
NodeWindowsOk(tws, path, T) ==
    \A k \in DOMAIN path :
        tws[path[k] + 1][1] <= T[k] /\ T[k] <= tws[path[k] + 1][2]

\* Variant: the End index is left unbounded.
VehicleHoursOk_StartOnly(v, T) ==
    v.start_min <= T[1] /\ T[1] <= v.end_min

\* CumulVar(Start(v)) and CumulVar(End(v)).SetRange(start_min, end_min)
VehicleHoursOk(v, T) ==
    /\ v.start_min <= T[1] /\ T[1] <= v.end_min
    /\ v.start_min <= T[Len(T)] /\ T[Len(T)] <= v.end_min

\* Variant: the load is bounded on arrival at each stop but not at the End,
\* so the demand of the last stop is never counted.
CapacityOk_BeforeLast(dem, path, cap) ==
    \A k \in 1..Len(path) : LoadCumuls(dem, path)[k] \in 0..cap

\* Variant: each demand is compared with the capacity on its own.
CapacityOk_PerStop(dem, path, cap) ==
    \A k \in DOMAIN path : demand_cb(dem, path[k]) \in 0..cap

\* AddDimensionWithVehicleCapacity(demand_idx, 0, [capacity], True, "Capacity")
CapacityOk(dem, path, cap) ==
    \A k \in 1..(Len(path) + 1) : LoadCumuls(dem, path)[k] \in 0..cap

StartTimes(tws) ==
    (IF tws[1][1] > 0 THEN tws[1][1] ELSE 0)..
    (IF tws[1][2] < Horizon THEN tws[1][2] ELSE Horizon)

\* rtime / rkm: the legs added while walking the solution; the step into the
\* End index is guarded by "if not routing.IsEnd(nxt_idx)".
RouteTimeX2(tm, path) ==
    SumSeq([k \in 1..(Len(path) - 1) |-> tm[path[k] + 1][path[k + 1] + 1]])

RouteMetres(dm, path) ==
    SumSeq([k \in 1..(Len(path) - 1) |-> dm[path[k] + 1][path[k + 1] + 1]])

Infeasible == [status |-> "infeasible", nodes |-> <<>>, cumul |-> <<>>,
               arc_costs |-> <<>>, time_min |-> 0, dist_km |-> 0]

\* The results solve_vrptw can return: any assignment of the model, or
\* "infeasible" when the search ends without one (none exists, or the
\* first-solution heuristic and the 30 s local search found none).
solve_vrptw(tm, dm, svc, dem, tws, v, objective) ==
    {Infeasible} \cup
    {[status |-> "ok",
      nodes |-> (<<0>> \o t) \o <<0>>,
      cumul |-> TimeCumuls(tm, svc, <<0>> \o t, t0),
      arc_costs |-> ArcCosts(tm, dm, objective, <<0>> \o t),
      time_min |-> RouteTimeX2(tm, <<0>> \o t),
      dist_km |-> RouteMetres(dm, <<0>> \o t)] :
        <<t, t0>> \in
          {x \in Tours(Len(tm)) \X StartTimes(tws) :
              LET path == <<0>> \o x[1]
                  T == TimeCumuls(tm, svc, path, x[2])
              IN  /\ TimeDimensionOk(svc, path, T)
                  /\ NodeWindowsOk(tws, path, T)
                  /\ VehicleHoursOk(v, T)
                  /\ CapacityOk(dem, path, v.capacity)}}

slice_and_solve(subset, v) ==
    LET map == idx_map(req.stops, subset)
    IN  solve_vrptw(SliceMatrix(time_m_all, map), SliceMatrix(dist_m_all, map),
                    service_times(req.stops, subset), demands(req.stops, subset),
                    time_windows(req.depot, req.stops, subset), v, req.objective)

\* ------------------------------------------------------------------------
\* The loop over veh_by_id.items() and the answer
\* ------------------------------------------------------------------------
\* abs_nodes.append(0 if n == 0 else (1 + req.stops.index(subset[n - 1])))
abs_nodes(stops, subset, nodes) ==
    [k \in DOMAIN nodes |->
        IF nodes[k] = 0 THEN 0 ELSE ListIndex(stops, stops[subset[nodes[k]]])]

\* route["nodes_abs"] = abs_nodes; route["nodes"] = route["nodes_abs"]
SolvedEntry(vid, stops, subset, r) ==
    [vehicle_id |-> vid,
     nodes |-> abs_nodes(stops, subset, r.nodes),
     nodes_abs |-> abs_nodes(stops, subset, r.nodes),
     time_min |-> r.time_min,
     dist_km |-> r.dist_km]

\* Variant: a vehicle without stops gets a route holding the depot once.
EmptyEntries_DepotOnce(vid) ==
    <<[vehicle_id |-> vid, nodes |-> <<0>>, nodes_abs |-> <<0>>,
       time_min |-> 0, dist_km |-> 0]>>

\* What the loop appends for a vehicle whose subset is empty.
EmptyEntries(vid) ==
    <<[vehicle_id |-> vid, nodes |-> <<0, 0>>, nodes_abs |-> <<0, 0>>,
       time_min |-> 0, dist_km |-> 0]>>

SolveVehicle ==
    /\ pc = "loop"
    /\ vi <= Len(VehKeys(req.vehicles))
    /\ LET vid == VehKeys(req.vehicles)[vi]
           v == veh_by_id(req.vehicles, vid)
           subset == DictGet(stops_by_vehicle, vid)
       IN  IF subset # <<>>
           THEN \E r \in slice_and_solve(subset, v) :
                   IF r.status # "ok"
                   THEN /\ response' = ErrorResponse(r.status, 400)
                        /\ pc' = "done"
                        /\ UNCHANGED <<vi, results, solved, total_time, total_dist>>
                   ELSE /\ results' = Append(results, SolvedEntry(vid, req.stops, subset, r))
                        /\ solved' = Append(solved,
                                        [vehicle_id |-> vid, vehicle |-> v,
                                         subset |-> subset, nodes |-> r.nodes,
                                         cumul |-> r.cumul,
                                         arc_costs |-> r.arc_costs,
                                         tws |-> time_windows(req.depot, req.stops, subset)])
                        /\ total_time' = total_time + r.time_min
                        /\ total_dist' = total_dist + r.dist_km
                        /\ vi' = vi + 1
                        /\ UNCHANGED <<pc, response>>
           ELSE /\ results' = results \o EmptyEntries(vid)
                /\ vi' = vi + 1
                /\ UNCHANGED <<pc, response, solved, total_time, total_dist>>
    /\ UNCHANGED <<raw, req, geocode_calls, time_m_all, dist_m_all, stops_by_vehicle,
                   has_assignment, enrichVars, sideVars>>

\* ------------------------------------------------------------------------
\* The tail of optimize: leg polylines, the map, the last_plans row, the answer
\* ------------------------------------------------------------------------
\* _ll(all_pts[a]) for all_pts = [req.depot] + req.stops
PointLoc(a) == IF a = 0 THEN req.depot_loc ELSE req.stops[a].loc

\* The legs "for route in results: for a, b in zip(nodes[:-1], nodes[1:])".
LegIds(routes) ==
    UNION {{<<k, i>> : i \in 1..(Len(routes[k].nodes_abs) - 1)} : k \in DOMAIN routes}

\* What one call of rp.leg_polyline followed by _coerce_path_to_coords does:
\* "path" a polyline is returned and decoded, "none" the provider returns
\* None (no key, failed call, no route), "raise" an exception comes out.
LegOutcomes == IF collaborators = "steady" THEN {"path"} ELSE {"path", "none", "raise"}

\* The decoded overview polyline of the leg from o to d.
Polyline(o, d) == <<o, <<o[1] + d[1], o[2] + d[2]>>, d>>

\* Variant: a leg without polyline contributes nothing.
leg_coords_Dropped(outcome, o, d) ==
    IF outcome = "path" THEN Polyline(o, d) ELSE <<>>

\* leg_coords after the try / except and "if not leg_coords".
leg_coords(outcome, o, d) ==
    IF outcome = "path" THEN Polyline(o, d) ELSE <<o, d>>

\* full_coords.extend(leg_coords), without repeating a shared end point.
Extend(full, leg) ==
    IF full # <<>> /\ leg # <<>> /\ full[Len(full)] = leg[1]
    THEN full \o Tail(leg) ELSE full \o leg

RECURSIVE ExtendAll(_, _)
ExtendAll(full, legs) ==
    IF legs = <<>> THEN full ELSE ExtendAll(Extend(full, Head(legs)), Tail(legs))

full_coords(route, k, outcomes) ==
    ExtendAll(<<>>, [i \in 1..(Len(route.nodes_abs) - 1) |->
                        leg_coords(outcomes[<<k, i>>],
                                   PointLoc(route.nodes_abs[i]),
                                   PointLoc(route.nodes_abs[i + 1]))])

\* build_map inside try / except: whether it returns.
RenderOutcomes == IF collaborators = "steady" THEN {TRUE} ELSE {TRUE, FALSE}

\* app.py 1248-1348: leg polylines, map, last_plans row and the ok answer.
\* ts = int(time.time()); the stored plan was written at 0, this one at 1.
Respond ==
    /\ pc = "loop"
    /\ vi > Len(VehKeys(req.vehicles))
    /\ \E outcomes \in [LegIds(results) -> LegOutcomes], rendered \in RenderOutcomes :
          LET ts == 1
              paths == [k \in DOMAIN results |-> full_coords(results[k], k, outcomes)]
              drawn == {k \in DOMAIN results : paths[k] # <<>>}
              url == IF rendered THEN MapRel(ts) ELSE ""
          IN  /\ leg_calls' =
                    [id \in LegIds(results) |->
                        [outcome |-> outcomes[id],
                         coords |-> leg_coords(outcomes[id],
                                        PointLoc(results[id[1]].nodes_abs[id[2]]),
                                        PointLoc(results[id[1]].nodes_abs[id[2] + 1]))]]
              /\ vehicle_paths' =
                    [vid \in {results[k].vehicle_id : k \in drawn} |->
                        paths[Max({k \in drawn : results[k].vehicle_id = vid})]]
              /\ map_ok' = rendered
              /\ map_files' = IF rendered THEN map_files \cup {MapRel(ts)} ELSE map_files
              /\ last_plans' = <<[req_json |-> raw, routes_json |-> results,
                                  map_url |-> url, path_json |-> vehicle_paths']>>
              /\ response' = [status |-> "ok", code |-> 200, message |-> NoMessage,
                              routes |-> results,
                              total_time_min |-> total_time,
                              total_dist_km |-> total_dist,
                              map_url |-> url]
    /\ pc' = "done"
    /\ UNCHANGED <<raw, req, geocode_calls, time_m_all, dist_m_all, stops_by_vehicle,
                   has_assignment, vi, results, solved, total_time, total_dist,
                   collaborators, sideVars>>

Next == ParseRequest \/ TravelMatrix \/ Partition \/ SolveVehicle \/ Respond

Spec == Init /\ [][Next]_vars

\* The optimize handler at rest, while another part of the program runs.
OptimizeIdle ==
    /\ raw = PreviousRequest
    /\ collaborators = "steady"
    /\ leg_calls = <<>>
    /\ vehicle_paths = <<>>
    /\ map_ok = TRUE
    /\ map_files = {MapRel(0)}
    /\ last_plans = <<PreviousPlan>>
    /\ pc = "idle"
    /\ req = NoRequest
    /\ geocode_calls = <<>>
    /\ time_m_all = <<>>
    /\ dist_m_all = <<>>
    /\ stops_by_vehicle = <<>>
    /\ has_assignment = FALSE
    /\ vi = 1
    /\ results = <<>>
    /\ solved = <<>>
    /\ total_time = 0
    /\ total_dist = 0
    /\ response = NoResponse

\* ------------------------------------------------------------------------
\* RoutingProvider.travel_matrix, in core/providers/maps.py (the class app.py
\* imports) and in src/maps.py
\* ------------------------------------------------------------------------
Pairs(n) == (0..(n - 1)) \X (0..(n - 1))

\* An element of the answer: "OK" with distance and duration, "FAIL" with a
\* status other than OK, "BARE" with status OK but no distance / duration.
CellKinds == {"OK", "FAIL", "BARE"}

\* The n x n answers in which at most one element is not "OK".
FullRows(n) ==
    {[i \in 1..n |-> [j \in 1..n |-> IF <<i, j>> = bad[1] THEN bad[2] ELSE "OK"]] :
        bad \in ((1..n) \X (1..n)) \X CellKinds}

\* The first r rows, the last of them cut to e elements.
Truncate(rows, r, e) ==
    [i \in 1..r |-> IF i < r THEN rows[i] ELSE SubSeq(rows[i], 1, e)]

\* What the service does: the call raises (network error, HTTP error status),
\* the answer carries a top-level status other than OK ("denied"), or it
\* carries rows, possibly fewer rows or elements than asked for.
MatrixAnswers(n) ==
    {[kind |-> k, rows |-> <<>>] : k \in {"raise", "denied"}}
    \cup {[kind |-> "rows", rows |-> Truncate(f, r, e)] :
              f \in FullRows(n), r \in 0..n, e \in 0..n}

LiveCell == [minutes |-> "live", km |-> "live"]

\* dist_m, dur_min = 9999.0, 9999.0
FailedCell == [minutes |-> "9999", km |-> "9999"]

\* The fallback of core/providers/maps.py: 0 / 0 on the diagonal, 10 minutes
\* and 5 km elsewhere.
FlatFallback(n) ==
    [p \in Pairs(n) |-> IF p[1] = p[2] THEN [minutes |-> "0", km |-> "0"]
                        ELSE [minutes |-> "10", km |-> "5"]]

\* _fallback_matrix of src/maps.py: haversine distance at FALLBACK_AVG_KMH.
fallback_matrix(n) == [p \in Pairs(n) |-> [minutes |-> "haversine", km |-> "haversine"]]

\* The loop "for i in range(n): for j in range(n): elem = rows[i]['elements'][j]"
\* runs to its end: every element is there and has what is read from it.
LoopCompletes(rows, n) ==
    \A i, j \in 1..n :
        /\ i \in DOMAIN rows
        /\ j \in DOMAIN rows[i]
        /\ rows[i][j] # "BARE"

\* travel_matrix of core/providers/maps.py: the live cells when the whole loop
\* went through, otherwise (no key, exception anywhere in the try block,
\* status other than OK) the fallback loop writes every cell.
core_travel_matrix(n, key, answer) ==
    IF key /\ answer.kind = "rows" /\ LoopCompletes(answer.rows, n)
    THEN [p \in Pairs(n) |->
             IF answer.rows[p[1] + 1][p[2] + 1] = "OK" THEN LiveCell ELSE FailedCell]
    ELSE FlatFallback(n)

\* travel_matrix of src/maps.py: without client or when the call raises (the
\* googlemaps client raises on a status other than OK) the fallback matrix;
\* otherwise one entry per element the answer holds, the fallback's values
\* where the element failed or lacks duration / distance.
legacy_travel_matrix(n, key, answer) ==
    IF ~key \/ answer.kind # "rows" THEN fallback_matrix(n)
    ELSE [p \in {q \in Pairs(n) : /\ q[1] + 1 \in DOMAIN answer.rows
                                  /\ q[2] + 1 \in DOMAIN answer.rows[q[1] + 1]} |->
             IF answer.rows[p[1] + 1][p[2] + 1] = "OK" THEN LiveCell
             ELSE fallback_matrix(n)[p]]

MatrixInit ==
    /\ OptimizeIdle /\ TrialIdle /\ FleetIdle /\ ConcurrentIdle
    /\ mx_provider \in {"core", "legacy"}
    /\ mx_key \in BOOLEAN
    /\ mx_n \in 1..MaxMatrixPoints
    /\ mx_answer \in MatrixAnswers(mx_n)
    /\ mx_result = <<>>
    /\ mx_pc = "call"

CoreTravelMatrix ==
    /\ mx_pc = "call"
    /\ mx_provider = "core"
    /\ mx_result' = core_travel_matrix(mx_n, mx_key, mx_answer)
    /\ mx_pc' = "returned"
    /\ UNCHANGED <<mx_provider, mx_key, mx_n, mx_answer, besidesMatrix>>

LegacyTravelMatrix ==
    /\ mx_pc = "call"
    /\ mx_provider = "legacy"
    /\ mx_result' = legacy_travel_matrix(mx_n, mx_key, mx_answer)
    /\ mx_pc' = "returned"
    /\ UNCHANGED <<mx_provider, mx_key, mx_n, mx_answer, besidesMatrix>>

\* optimize: "for i in range(n_all): for j in range(n_all): cell = m[(i, j)]"
ReadCells ==
    /\ mx_pc = "returned"
    /\ mx_pc' = IF \A p \in Pairs(mx_n) : p \in DOMAIN mx_result
                THEN "read" ELSE "KeyError"
    /\ UNCHANGED <<mx_provider, mx_key, mx_n, mx_answer, mx_result, besidesMatrix>>

MatrixNext == CoreTravelMatrix \/ LegacyTravelMatrix \/ ReadCells

MatrixSpec == MatrixInit /\ [][MatrixNext]_vars

\* ------------------------------------------------------------------------
\* trial_store and GET /trial/start
\* ------------------------------------------------------------------------
Emails == {"a@x", "A@x", "b@x"}

Ips == {"10.0.0.1", "10.0.0.2"}

\* fp: the query parameter, else the fp_token cookie, else "".
Fingerprints == {"", "f1"}

\* str.lower() on the addresses used.
Lower(s) == IF s = "A@x" THEN "a@x" ELSE s

\* _h: "" for an empty value, else the HMAC-SHA256 hex digest (taken as
\* one-to-one).
_h(s) == IF s = "" THEN "" ELSE "hmac:" \o s

\* What trial_register appends.
TrialRow(email, ip, fp, now) ==
    [email_hash |-> _h(Lower(email)), ip_hash |-> _h(ip), fp_hash |-> _h(fp),
     created_at |-> now]

\* trial_exists_recent: a row not older than the cutoff with one hash equal.
trial_exists_recent(rows, email, ip, fp, now, days) ==
    \E k \in DOMAIN rows :
        /\ rows[k].created_at >= now - days
        /\ \/ rows[k].email_hash = _h(Lower(email))
           \/ rows[k].ip_hash = _h(ip)
           \/ rows[k].fp_hash = _h(fp)

TrialInit ==
    /\ OptimizeIdle /\ MatrixIdle /\ FleetIdle /\ ConcurrentIdle
    /\ TrialIdle

\* trial_start: refuse when trial_exists_recent(email, ip, fp, days=90), else
\* create the subscription and trial_register.
TrialStart ==
    /\ Len(trial_rows) < MaxTrials
    /\ \E email \in Emails, ip \in Ips, fp \in Fingerprints :
          LET blocked == trial_exists_recent(trial_rows, email, ip, fp, trial_now, TrialDays)
          IN  /\ trial_last' = [called |-> TRUE, email |-> email, ip |-> ip, fp |-> fp,
                                blocked |-> blocked, at |-> trial_now,
                                seen |-> Len(trial_rows)]
              /\ IF blocked
                 THEN UNCHANGED <<trial_rows, trial_regs>>
                 ELSE /\ trial_rows' = Append(trial_rows, TrialRow(email, ip, fp, trial_now))
                      /\ trial_regs' = Append(trial_regs, [email |-> email, ip |-> ip,
                                                           fp |-> fp, created_at |-> trial_now])
    /\ UNCHANGED <<trial_now, besidesTrial>>

\* Time passes, sixty days at a time.
TrialTick ==
    /\ trial_now < 60 * MaxTicks
    /\ trial_now' = trial_now + 60
    /\ UNCHANGED <<trial_rows, trial_regs, trial_last, besidesTrial>>

TrialNext == TrialStart \/ TrialTick

TrialSpec == TrialInit /\ [][TrialNext]_vars

\* ------------------------------------------------------------------------
\* POST /api/fleet/vehicles (api_create_vehicle), one step per statement that
\* reads or writes table vehicles; each statement is its own transaction.
\* ------------------------------------------------------------------------
FleetThreads == 1..MaxFleetThreads

\* The vehicles a client can hold before the requests start.
StoredIds == <<"V1", "V2", "V3", "V4", "V5">>

\* data.get("id") of a request: none, a stored id, new ids.
RequestIds == {"", "V1", "V6", "V7"}

\* PLAN_LIMITS.get(plan_name, PLAN_LIMITS["start"])
get_vehicle_limit_for_client(plan) ==
    CASE plan = "start" -> 5
      [] plan = "pro" -> 50
      [] plan = "enterprise" -> 9999999
      [] OTHER -> 5

IdleThread == [pc |-> "idle", id |-> "", is_update |-> FALSE, code |-> 0]

FleetInit ==
    /\ OptimizeIdle /\ MatrixIdle /\ TrialIdle /\ ConcurrentIdle
    /\ fl_plan \in {"start", "trial"}
    /\ \E k \in 0..Len(StoredIds) : fl_vehicles = {StoredIds[i] : i \in 1..k}
    /\ fl_thread = [t \in FleetThreads |-> IdleThread]
    /\ fl_started = 0

\* The request comes in; without id it is answered 400.
FleetBegin ==
    /\ fl_started < MaxFleetRequests
    /\ \E t \in FleetThreads, id \in RequestIds :
          /\ fl_thread[t].pc \in {"idle", "done"}
          /\ fl_thread' = [fl_thread EXCEPT ![t] =
                IF id = "" THEN [pc |-> "done", id |-> id, is_update |-> FALSE, code |-> 400]
                ELSE [pc |-> "begun", id |-> id, is_update |-> FALSE, code |-> 0]]
    /\ fl_started' = fl_started + 1
    /\ UNCHANGED <<fl_plan, fl_vehicles, besidesFleet>>

\* is_update = vehicle_exists_for_client(client_id, vehicle_id)
FleetCheckExists ==
    /\ \E t \in FleetThreads :
          /\ fl_thread[t].pc = "begun"
          /\ fl_thread' = [fl_thread EXCEPT ![t].pc = "checked",
                                            ![t].is_update = (fl_thread[t].id \in fl_vehicles)]
    /\ UNCHANGED <<fl_plan, fl_vehicles, fl_started, besidesFleet>>

\* "if not is_update": current_count >= plan_limit is answered 403.
FleetCheckLimit ==
    /\ \E t \in FleetThreads :
          /\ fl_thread[t].pc = "checked"
          /\ fl_thread' = [fl_thread EXCEPT ![t] =
                IF /\ ~fl_thread[t].is_update
                   /\ Cardinality(fl_vehicles) >= get_vehicle_limit_for_client(fl_plan)
                THEN [@ EXCEPT !.pc = "done", !.code = 403]
                ELSE [@ EXCEPT !.pc = "admitted"]]
    /\ UNCHANGED <<fl_plan, fl_vehicles, fl_started, besidesFleet>>

\* INSERT ... ON CONFLICT (client_id, id) DO UPDATE
upsert_vehicle(vehicles, id) == vehicles \cup {id}

FleetUpsert ==
    /\ \E t \in FleetThreads :
          /\ fl_thread[t].pc = "admitted"
          /\ fl_vehicles' = upsert_vehicle(fl_vehicles, fl_thread[t].id)
          /\ fl_thread' = [fl_thread EXCEPT ![t].pc = "done", ![t].code = 200]
    /\ UNCHANGED <<fl_plan, fl_started, besidesFleet>>

FleetNext == FleetBegin \/ FleetCheckExists \/ FleetCheckLimit \/ FleetUpsert

FleetSpec == FleetInit /\ [][FleetNext]_vars

\* ------------------------------------------------------------------------
\* Concurrent optimize requests from the point where the routes are solved:
\* ts = int(time.time()), build_map into route_<ts>.html, DELETE and INSERT
\* on last_plans (two statements, each committed on its own), the answer.
\* The routes of request p are named by p.
\* ------------------------------------------------------------------------
ConcRequests == 1..MaxConcurrent

Users == {"u1", "u2"}

\* The map and the row an earlier request (0) of u1 left behind.
EarlierFile == [path |-> MapRel(0), shows |-> 0]

EarlierRow == [user_id |-> "u1", map_url |-> MapRel(0), routes |-> 0]

ConcurrentInit ==
    /\ OptimizeIdle /\ MatrixIdle /\ TrialIdle /\ FleetIdle
    /\ cc_clock = 1
    /\ \E who \in [ConcRequests -> Users] :
          cc_req = [p \in ConcRequests |->
                       [user |-> who[p], pc |-> "solved", ts |-> 0,
                        map_ok |-> TRUE, map_url |-> ""]]
    /\ cc_disk = {EarlierFile}
    /\ cc_plans \in {<<>>, <<EarlierRow>>}
    /\ cc_done = <<>>

\* ts = int(time.time()); map_path = maps_dir / f"route_{ts}.html"
ConcStamp ==
    /\ \E p \in ConcRequests :
          /\ cc_req[p].pc = "solved"
          /\ cc_req' = [cc_req EXCEPT ![p].pc = "stamped", ![p].ts = cc_clock]
    /\ UNCHANGED <<cc_clock, cc_disk, cc_plans, cc_done, besidesConcurrent>>

\* build_map(..., str(map_path), ...): the file at map_path is replaced.
WriteMap(disk, ts, p) ==
    {f \in disk : f.path # MapRel(ts)} \cup {[path |-> MapRel(ts), shows |-> p]}

\* build_map inside try / except: on an exception map_ok = False.
ConcBuildMap ==
    /\ \E p \in ConcRequests, ok \in BOOLEAN :
          /\ cc_req[p].pc = "stamped"
          /\ cc_disk' = IF ok THEN WriteMap(cc_disk, cc_req[p].ts, p) ELSE cc_disk
          /\ cc_req' = [cc_req EXCEPT ![p].pc = "rendered", ![p].map_ok = ok]
    /\ UNCHANGED <<cc_clock, cc_plans, cc_done, besidesConcurrent>>

\* con.execute("DELETE FROM last_plans WHERE user_id = ?", [uid])
ConcDelete ==
    /\ \E p \in ConcRequests :
          /\ cc_req[p].pc = "rendered"
          /\ cc_plans' = SelectSeq(cc_plans, LAMBDA r : r.user_id # cc_req[p].user)
          /\ cc_req' = [cc_req EXCEPT ![p].pc = "deleted"]
    /\ UNCHANGED <<cc_clock, cc_disk, cc_done, besidesConcurrent>>

\* con.execute("INSERT INTO last_plans ...", [uid, ..., map_rel if map_ok else "", ...])
ConcInsert ==
    /\ \E p \in ConcRequests :
          /\ cc_req[p].pc = "deleted"
          /\ cc_plans' = Append(cc_plans,
                                [user_id |-> cc_req[p].user,
                                 map_url |-> IF cc_req[p].map_ok THEN MapRel(cc_req[p].ts)
                                             ELSE "",
                                 routes |-> p])
          /\ cc_req' = [cc_req EXCEPT ![p].pc = "inserted"]
    /\ UNCHANGED <<cc_clock, cc_disk, cc_done, besidesConcurrent>>

\* return jsonify({..., "map_url": map_rel if map_ok else ""})
ConcAnswer ==
    /\ \E p \in ConcRequests :
          /\ cc_req[p].pc = "inserted"
          /\ cc_req' = [cc_req EXCEPT ![p].pc = "answered",
                                      ![p].map_url = IF cc_req[p].map_ok
                                                     THEN MapRel(cc_req[p].ts) ELSE ""]
          /\ cc_done' = Append(cc_done, p)
    /\ UNCHANGED <<cc_clock, cc_disk, cc_plans, besidesConcurrent>>

\* A second goes by.
ConcTick ==
    /\ cc_clock < MaxClock
    /\ cc_clock' = cc_clock + 1
    /\ UNCHANGED <<cc_req, cc_disk, cc_plans, cc_done, besidesConcurrent>>

ConcurrentNext ==
    ConcStamp \/ ConcBuildMap \/ ConcDelete \/ ConcInsert \/ ConcAnswer \/ ConcTick

ConcurrentSpec == ConcurrentInit /\ [][ConcurrentNext]_vars

\* ------------------------------------------------------------------------
\* Properties
\* ------------------------------------------------------------------------
OkResponse == pc = "done" /\ response.status = "ok"

\* The stops visited by a route of the answer, in order (depot ends cut off).
Visited(route) == SubSeq(route.nodes, 2, Len(route.nodes) - 1)

EffectiveWindow(stop) == IF stop.window # <<>> THEN stop.window ELSE req.depot

\* C1: in every ok response each route's node sequence starts with 0, ends
\* with 0, and in between holds each stop of the vehicle's subset exactly
\* once and no other stop.
C1_RoundTrip ==
    OkResponse =>
        \A k \in DOMAIN response.routes :
            LET r == response.routes[k]
                subset == DictGet(stops_by_vehicle, r.vehicle_id)
            IN  /\ Len(r.nodes) = Len(subset) + 2
                /\ r.nodes[1] = 0
                /\ r.nodes[Len(r.nodes)] = 0
                /\ Range(Visited(r)) = Range(subset)

\* C2: the subsets optimize solves, one per vehicle of the request, are
\* pairwise disjoint and their union is the full stop list.
C2_PartitionComplete ==
    pc = "loop" =>
        LET keys == Range(VehKeys(req.vehicles))
            sub(vid) == DictGet(stops_by_vehicle, vid)
        IN  /\ \A a, b \in keys : a # b => Range(sub(a)) \cap Range(sub(b)) = {}
            /\ \A a \in keys : Cardinality(Range(sub(a))) = Len(sub(a))
            /\ UNION {Range(sub(a)) : a \in keys} = DOMAIN req.stops

UnknownTag ==
    \E i \in DOMAIN raw.stops :
        /\ raw.stops[i].vehicle # ""
        /\ raw.stops[i].vehicle \notin Range(VehIds(raw.vehicles))

\* C3: a request with a stop tagged with a vehicle id that is not in the
\* vehicle list is answered bad_request (400) without routes.
C3_UnknownVehicleRejected ==
    (pc = "done" /\ UnknownTag) =>
        /\ response.status = "bad_request"
        /\ response.code = 400
        /\ response.routes = <<>>

AllLegs(m_all, nodes) ==
    SumSeq([k \in 1..(Len(nodes) - 1) |-> m_all[nodes[k] + 1][nodes[k + 1] + 1]])

\* C4: a route's time_min (dist_km) is the sum of the time (distance) matrix
\* entries over every consecutive pair of its nodes, the leg back to the
\* depot included.
C4_AllLegsCounted ==
    OkResponse =>
        \A k \in DOMAIN response.routes :
            /\ response.routes[k].time_min = AllLegs(time_m_all, response.routes[k].nodes)
            /\ response.routes[k].dist_km = AllLegs(dist_m_all, response.routes[k].nodes)

DemandUpTo(route, n) ==
    SumSeq([i \in 1..n |-> req.stops[Visited(route)[i]].demand])

\* C5: in every ok result, for every route and every prefix of its node
\* sequence, the demands of the stops visited so far sum to at most the
\* capacity of the route's vehicle.
C5_CapacityRespected ==
    OkResponse =>
        \A k \in DOMAIN response.routes :
            \A n \in 0..Len(Visited(response.routes[k])) :
                DemandUpTo(response.routes[k], n)
                    <= veh_by_id(req.vehicles, response.routes[k].vehicle_id).capacity

\* A route of two stops that fills its vehicle exactly.
C5_Witness ==
    /\ OkResponse
    /\ \E k \in DOMAIN response.routes :
          /\ Len(Visited(response.routes[k])) = 2
          /\ DemandUpTo(response.routes[k], 2)
                = veh_by_id(req.vehicles, response.routes[k].vehicle_id).capacity

\* C6: in every ok result the arrival time the solver computed for each
\* visited stop lies within the window the stop is solved with.
C6_ArrivalInWindow ==
    OkResponse =>
        \A k \in DOMAIN solved :
            \A i \in 2..(Len(solved[k].nodes) - 1) :
                LET w == EffectiveWindow(req.stops[solved[k].subset[solved[k].nodes[i]]])
                IN  w[1] <= solved[k].cumul[i] /\ solved[k].cumul[i] <= w[2]

\* A stop with a window of its own is reached at the minute the window closes,
\* after another stop.
C6_Witness ==
    /\ OkResponse
    /\ \E k \in DOMAIN solved :
          LET s == req.stops[solved[k].subset[solved[k].nodes[3]]]
          IN  /\ Len(solved[k].nodes) = 4
              /\ s.window # <<>>
              /\ solved[k].cumul[3] = s.window[2]

\* C7: in every ok result, for every vehicle with a non-empty route, the
\* departure from and the return to the depot lie within the depot's window.
C7_DepotWindowBoundsBoth ==
    OkResponse =>
        \A k \in DOMAIN solved :
            LET c == solved[k].cumul
            IN  /\ req.depot[1] <= c[1] /\ c[1] <= req.depot[2]
                /\ req.depot[1] <= c[Len(c)] /\ c[Len(c)] <= req.depot[2]

\* C8: in every ok result each vehicle's departure from and return to the
\* depot lie within the vehicle's own hours [start_min, end_min].
C8_VehicleHoursBoundBoth ==
    OkResponse =>
        \A k \in DOMAIN solved :
            LET c == solved[k].cumul
                v == solved[k].vehicle
            IN  /\ v.start_min <= c[1] /\ c[1] <= v.end_min
                /\ v.start_min <= c[Len(c)] /\ c[Len(c)] <= v.end_min

\* A vehicle leaves when its hours begin, after the depot has opened, and is
\* back at the minute its hours end.
C8_Witness ==
    /\ OkResponse
    /\ \E k \in DOMAIN solved :
          /\ solved[k].cumul[1] = solved[k].vehicle.start_min
          /\ solved[k].cumul[1] > req.depot[1]
          /\ solved[k].cumul[Len(solved[k].cumul)] = solved[k].vehicle.end_min

Unloaded == {vid \in Range(VehKeys(req.vehicles)) : DictGet(stops_by_vehicle, vid) = <<>>}

EntriesOf(vid) == {k \in DOMAIN response.routes : response.routes[k].vehicle_id = vid}

\* C9: in an ok response a vehicle that was assigned no stop has a route
\* entry with nodes = [0,0], time_min = 0, dist_km = 0 and adds nothing to
\* the totals.
C9_EmptyVehicleEntry ==
    OkResponse =>
        /\ \A vid \in Unloaded :
              /\ EntriesOf(vid) # {}
              /\ \A k \in EntriesOf(vid) :
                    /\ response.routes[k].nodes = <<0, 0>>
                    /\ response.routes[k].time_min = 0
                    /\ response.routes[k].dist_km = 0
        /\ LET loaded == SelectSeq(response.routes, LAMBDA r : r.vehicle_id \notin Unloaded)
           IN  /\ response.total_time_min = SumSeq([k \in DOMAIN loaded |-> loaded[k].time_min])
               /\ response.total_dist_km = SumSeq([k \in DOMAIN loaded |-> loaded[k].dist_km])

\* One vehicle got no stop while another one drove.
C9_Witness ==
    /\ OkResponse
    /\ Unloaded # {}
    /\ response.total_time_min > 0

\* C10: every ok response has exactly one route entry per vehicle of the
\* request: as many entries as vehicles, one for each.
C10_OneEntryPerVehicle ==
    OkResponse =>
        /\ Len(response.routes) = Len(req.vehicles)
        /\ \A i \in DOMAIN req.vehicles : Cardinality(EntriesOf(req.vehicles[i].id)) = 1

RouteOf(vid) == response.routes[CHOOSE k \in DOMAIN response.routes :
                                   response.routes[k].vehicle_id = vid]

\* C11: for every route of an ok response nodes_abs is the solver's local
\* node sequence translated position by position: local 0 is global 0, local
\* k > 0 is the global index of the k-th stop of the vehicle's subset, and
\* different stops of the subset get different global indices.
C11_IndexTranslation ==
    OkResponse =>
        \A k \in DOMAIN solved :
            LET local == solved[k].nodes
                abs == RouteOf(solved[k].vehicle_id).nodes_abs
            IN  /\ Len(abs) = Len(local)
                /\ \A i \in DOMAIN local :
                      abs[i] = IF local[i] = 0 THEN 0 ELSE solved[k].subset[local[i]]
                /\ \A a, b \in DOMAIN local :
                      local[a] # local[b] => abs[a] # abs[b]

Untagged == \A i \in DOMAIN raw.stops : raw.stops[i].vehicle = ""

Abs(x) == IF x < 0 THEN -x ELSE x

\* C12: when no stop carries a vehicle tag, stop i (0-based, request order)
\* is in the subset of vehicle (i mod number of vehicles) and of no other
\* vehicle, and the subsets of any two vehicles of the request differ in
\* size by at most one.
C12_RoundRobinBalanced ==
    (pc = "loop" /\ Untagged) =>
        LET n == Len(req.vehicles)
            sub(vid) == DictGet(stops_by_vehicle, vid)
        IN  /\ \A p \in DOMAIN req.stops :
                  \A vid \in Range(VehIds(req.vehicles)) :
                      p \in Range(sub(vid)) <=> vid = req.vehicles[((p - 1) % n) + 1].id
            /\ \A a, b \in DOMAIN req.vehicles :
                  Abs(Len(sub(req.vehicles[a].id)) - Len(sub(req.vehicles[b].id))) <= 1

BothGiven(rs) == rs.tw_start # NoTime /\ rs.tw_end # NoTime

RawDepotWindow == <<hhmm_to_minutes(raw.depot.start_window),
                    hhmm_to_minutes(raw.depot.end_window)>>

\* C13: a stop whose tw_start or tw_end is missing in the request is solved
\* with the depot's time window; a stop with both is solved with its own.
C13_NullWindowIsDepotWindow ==
    \A k \in DOMAIN solved :
        \A j \in DOMAIN solved[k].subset :
            LET rs == raw.stops[solved[k].subset[j]]
            IN  solved[k].tws[j + 1] =
                    IF BothGiven(rs)
                    THEN <<hhmm_to_minutes(rs.tw_start), hhmm_to_minutes(rs.tw_end)>>
                    ELSE RawDepotWindow

\* One route solved with a stop that gave only tw_start, under a depot window
\* narrower than the day, and a stop that gave both.
C13_Witness ==
    /\ OkResponse
    /\ RawDepotWindow = <<1, 3>>
    /\ \E k \in DOMAIN solved :
          \E i, j \in DOMAIN solved[k].subset :
              /\ raw.stops[solved[k].subset[i]].tw_start # NoTime
              /\ raw.stops[solved[k].subset[i]].tw_end = NoTime
              /\ BothGiven(raw.stops[solved[k].subset[j]])

NoValidCoords(pt) == ~(pt.lat.kind = "num" /\ pt.lon.kind = "num")

GeocodeMissed(i) ==
    \E c \in DOMAIN geocode_calls : geocode_calls[c].point = i /\ ~geocode_calls[c].hit

\* The points without valid (lat, lon) whose address is missing or was not
\* resolved by the geocoder.
Unlocated ==
    {i \in 0..Len(raw.stops) :
        /\ NoValidCoords(PointAt(raw, i))
        /\ (PointAt(raw, i).address = "" \/ GeocodeMissed(i))}

\* C14: when the depot or a stop has neither valid (lat, lon) nor an address
\* that geocode resolves, optimize answers bad_request (400), the message
\* carries the address of that point when one was given, and neither the
\* travel matrix nor the solver is called.
C14_UnlocatedPointRejected ==
    (pc # "start" /\ Unlocated # {}) =>
        /\ pc = "done"
        /\ response.status = "bad_request"
        /\ response.code = 400
        /\ \A i \in Unlocated :
              PointAt(raw, i).address # "" =>
                  response.message.address = PointAt(raw, i).address
        /\ time_m_all = <<>> /\ dist_m_all = <<>>
        /\ solved = <<>> /\ results = <<>>

\* The depot was geocoded, then the geocoder missed the address of a stop.
C14_Witness ==
    /\ pc = "done"
    /\ Len(geocode_calls) = 2
    /\ geocode_calls[1].point = 0 /\ geocode_calls[1].hit
    /\ geocode_calls[2].point = 1 /\ ~geocode_calls[2].hit
    /\ 1 \in Unlocated

\* The vehicle the loop is at, its subset, and what solve_vrptw can return.
CurrentVid == VehKeys(req.vehicles)[vi]

CurrentSubset == DictGet(stops_by_vehicle, CurrentVid)

NoFeasibleTour ==
    /\ vi <= Len(VehKeys(req.vehicles))
    /\ CurrentSubset # <<>>
    /\ \A r \in slice_and_solve(CurrentSubset, veh_by_id(req.vehicles, CurrentVid)) :
          r.status = "infeasible"

SubsetDemand(vid) ==
    SumSeq([k \in DOMAIN DictGet(stops_by_vehicle, vid) |->
               req.stops[DictGet(stops_by_vehicle, vid)[k]].demand])

Overloaded ==
    {vid \in Range(VehKeys(req.vehicles)) :
        SubsetDemand(vid) > veh_by_id(req.vehicles, vid).capacity}

\* C16: when the demands of the stops assigned to a vehicle add up to more
\* than its capacity, the request ends with status infeasible.
C16_OverloadInfeasible ==
    (pc = "done" /\ Overloaded # {}) => response.status = "infeasible"

\* A single stop that asks for more than the vehicle carries.
C16_Witness ==
    /\ pc = "done"
    /\ response.status = "infeasible"
    /\ \E vid \in Overloaded :
          /\ Len(DictGet(stops_by_vehicle, vid)) = 1
          /\ req.stops[DictGet(stops_by_vehicle, vid)[1]].demand
                > veh_by_id(req.vehicles, vid).capacity

EarliestDeparture(v) == Max({0, req.depot[1], v.start_min})

\* The stops whose window closes before the earliest departure plus the
\* travel time from the depot, as the solver counts it.
LateStops ==
    {p \in DOMAIN req.stops :
        \E vid \in Range(VehKeys(req.vehicles)) :
            /\ p \in Range(DictGet(stops_by_vehicle, vid))
            /\ EffectiveWindow(req.stops[p])[2]
                  < EarliestDeparture(veh_by_id(req.vehicles, vid))
                    + time_callback(time_m_all, 0, p)}

C18_StatusEnumerated ==
    pc = "done" =>
        response.status \in {"ok", "bad_request", "provider_error", "infeasible"}

FailedLegs == {id \in DOMAIN leg_calls : leg_calls[id].outcome \in {"none", "raise"}}

\* C19: after a successful solve, a leg for which leg_polyline returns
\* nothing or raises is kept as the straight segment between its two end
\* points, a map render that raises leaves map_url empty, and the response is
\* still ok with the routes and totals the solve produced.
C19_EnrichmentFailureHarmless ==
    (pc = "done" /\ (FailedLegs # {} \/ ~map_ok)) =>
        /\ \A id \in FailedLegs :
              leg_calls[id].coords =
                  <<PointLoc(results[id[1]].nodes_abs[id[2]]),
                    PointLoc(results[id[1]].nodes_abs[id[2] + 1])>>
        /\ (~map_ok => response.map_url = "")
        /\ response.status = "ok"
        /\ response.routes = results
        /\ response.total_time_min = total_time
        /\ response.total_dist_km = total_dist

\* A route with a stop was answered although one leg got no polyline, one
\* raised, one was drawn, and the map could not be rendered.
C19_Witness ==
    /\ OkResponse
    /\ ~map_ok
    /\ response.total_time_min > 0
    /\ \A o \in {"path", "none", "raise"} :
          \E id \in DOMAIN leg_calls : leg_calls[id].outcome = o

\* C20: a response with status bad_request, provider_error or infeasible
\* carries no routes, and the stored last plan of the user and the map files
\* are as they were before the request.
C20_FailureLeavesNoTrace ==
    (pc = "done" /\ response.status \in {"bad_request", "provider_error", "infeasible"}) =>
        /\ response.routes = <<>>
        /\ last_plans = <<PreviousPlan>>
        /\ map_files = {MapRel(0)}

\* One vehicle was solved, then no tour was feasible for the next one.
C20_Witness ==
    /\ pc = "done"
    /\ response.status = "infeasible"
    /\ NoFeasibleTour
    /\ results # <<>>
    /\ solved # <<>>

ValidWindow(w) == 0 <= w[1] /\ w[1] <= w[2] /\ w[2] <= Horizon

\* C23: the depot window, every stop window and every vehicle's hours of the
\* request that parse_request built satisfy 0 <= start_min <= end_min <= 1440
\* (a request that breaks this is rejected, so none is ever built from it).
C23_WindowsWellFormed ==
    /\ ValidWindow(req.depot)
    /\ \A i \in DOMAIN req.vehicles :
          ValidWindow(<<req.vehicles[i].start_min, req.vehicles[i].end_min>>)
    /\ \A i \in DOMAIN req.stops :
          req.stops[i].window # <<>> => ValidWindow(req.stops[i].window)

\* C24: in every request that parse_request built, the vehicle ids are
\* pairwise distinct and the stop ids (generated ones included) are pairwise
\* distinct, so no request with a repeated id gets to the partition.
C24_IdsUnique ==
    /\ \A a, b \in DOMAIN req.vehicles :
          a # b => req.vehicles[a].id # req.vehicles[b].id
    /\ \A a, b \in DOMAIN req.stops :
          a # b => req.stops[a].id # req.stops[b].id
\* What one solve_vrptw call was given for the route solved[k].
GivenTimes(k) == SliceMatrix(time_m_all, idx_map(req.stops, solved[k].subset))

GivenDistances(k) == SliceMatrix(dist_m_all, idx_map(req.stops, solved[k].subset))

GivenService(k) == service_times(req.stops, solved[k].subset)

\* C25: the cost of every arc of a solved route is the rounded time-matrix
\* entry of the arc when objective is min_cost or min_time, and the
\* distance-matrix entry of the arc when objective is min_distance.
C25_ArcCostFollowsObjective ==
    \A k \in DOMAIN solved :
        \A i \in 1..(Len(solved[k].nodes) - 1) :
            LET a == solved[k].nodes[i]
                b == solved[k].nodes[i + 1]
            IN  solved[k].arc_costs[i] =
                    IF req.objective = "min_distance"
                    THEN GivenDistances(k)[a + 1][b + 1]
                    ELSE RoundX2(GivenTimes(k)[a + 1][b + 1])

\* C28: in every solved route the arrival at a node is the arrival at the
\* previous node plus that node's service time plus the rounded travel time
\* between the two, the End of the route included: no waiting anywhere.
C28_NoWaiting ==
    \A k \in DOMAIN solved :
        \A i \in 2..Len(solved[k].nodes) :
            LET a == solved[k].nodes[i - 1]
                b == solved[k].nodes[i]
            IN  solved[k].cumul[i] =
                    solved[k].cumul[i - 1] + GivenService(k)[a + 1]
                    + RoundX2(GivenTimes(k)[a + 1][b + 1])

\* A route of two stops that leaves the depot after the start of the day,
\* serves for some time at its first stop and reaches the second one later
\* than its window opens.
C28_Witness ==
    \E k \in DOMAIN solved :
        /\ Len(solved[k].nodes) = 4
        /\ solved[k].cumul[1] > 0
        /\ GivenService(k)[solved[k].nodes[2] + 1] > 0
        /\ solved[k].cumul[3] > solved[k].tws[solved[k].nodes[3] + 1][1]
\* Both lat and lon of point i of the payload are numbers.
NumericPoint(i) == PointAt(raw, i).lat.kind = "num" /\ PointAt(raw, i).lon.kind = "num"

\* The request was refused because point i has no usable coordinates.
RejectedForCoords(i) ==
    /\ response.status = "bad_request"
    /\ IF i = 0
       THEN response.message.error \in {"depot without coordinates or address",
                                        "depot not geocoded"}
       ELSE /\ response.message.error \in {"stop without lat/lon or address",
                                           "stop not geocoded"}
            /\ response.message.id = (IF raw.stops[i].id # "" THEN raw.stops[i].id
                                      ELSE AutoId(i))

\* C29: once the request is parsed, a point (depot or stop) whose lat and lon
\* are both numbers, zero included, was not sent to the geocoder, did not get
\* the request refused for missing coordinates, and has the coordinates given.
C29_NumericCoordsUsed ==
    pc # "parse" =>
        \A i \in 0..Len(raw.stops) :
            NumericPoint(i) =>
                /\ \A c \in DOMAIN geocode_calls : geocode_calls[c].point # i
                /\ ~RejectedForCoords(i)
                /\ req # NoRequest =>
                       (IF i = 0 THEN req.depot_loc ELSE req.stops[i].loc)
                           = <<PointAt(raw, i).lat.val, PointAt(raw, i).lon.val>>
\* C22: whatever the routing service does, the dictionary travel_matrix
\* returns has an entry for every ordered pair (i, j) with 0 <= i, j < n, and
\* the loop of optimize reads every cell without a KeyError.
C22_MatrixComplete ==
    /\ mx_pc \in {"returned", "read", "KeyError"} =>
           \A p \in Pairs(mx_n) : p \in DOMAIN mx_result
    /\ mx_pc # "KeyError"
\* Registration k is no older than TrialDays at the time of the last call of
\* trial_start and has the email, the ip, or the non-empty fingerprint of it.
MatchingTrial(k) ==
    /\ trial_regs[k].created_at >= trial_last.at - TrialDays
    /\ \/ Lower(trial_regs[k].email) = Lower(trial_last.email)
       \/ trial_regs[k].ip = trial_last.ip
       \/ (trial_last.fp # "" /\ trial_regs[k].fp = trial_last.fp)

\* C30: trial_exists_recent answers true, and trial_start refuses, only if a
\* trial registered within the last 90 days has the same email, the same ip
\* or the same non-empty fingerprint; users with different emails and ips
\* who send no fingerprint do not block each other.
C30_BlockedOnlyByMatch ==
    (trial_last.called /\ trial_last.blocked) =>
        \E k \in 1..trial_last.seen : MatchingTrial(k)
\* C27: whatever the sequence or interleaving of POST /api/fleet/vehicles
\* requests of the client, the vehicles stored for it never number more than
\* the vehicle limit of its plan.
C27_LimitNeverExceeded ==
    Cardinality(fl_vehicles) <= get_vehicle_limit_for_client(fl_plan)
\* C21: the map_url a request was answered with designates a file that shows
\* the routes of that request, whatever the other requests did in between.
C21_MapIsOwn ==
    \A p \in DOMAIN cc_req :
        (cc_req[p].pc = "answered" /\ cc_req[p].map_url # "") =>
            [path |-> cc_req[p].map_url, shows |-> p] \in cc_disk

\* The rows last_plans holds for user u.
RowsOf(u) == SelectSeq(cc_plans, LAMBDA r : r.user_id = u)

\* The requests of user u answered so far, in the order of their answers.
DoneBy(u) == SelectSeq(cc_done, LAMBDA p : cc_req[p].user = u)

\* C26: last_plans never holds more than one row for a user, and once the
\* requests of a user are all answered the row is that of the request
\* answered last.
C26_OneRowPerUser ==
    \A u \in Users :
        /\ Len(RowsOf(u)) <= 1
        /\ (/\ DoneBy(u) # <<>>
            /\ \A p \in DOMAIN cc_req : cc_req[p].user = u => cc_req[p].pc = "answered")
           => (/\ Len(RowsOf(u)) = 1
               /\ RowsOf(u)[1].routes = DoneBy(u)[Len(DoneBy(u))])
====
